---- MODULE Spec2Model ----
(***************************************************************************)
(* Model of the portfolio backend (src/app.py): the OTP store with its     *)
(* request / verify / sweep operations and the /ask responder.             *)
(*                                                                         *)
(* Strings are tuples of one-character strings, so that lower() and        *)
(* strip() are computed character by character as Python computes them.    *)
(* The clock is an integer number of minutes.                              *)
(***************************************************************************)
EXTENDS Integers, Sequences, FiniteSets, TLC

VARIABLES
    otp_storage,   \* app.py:29  email -> [otp, timestamp]
    now,           \* the wall clock read by datetime.now()
    last,          \* the request handled by the latest step and its response
    issued,        \* history: per email, the code of the latest successful send
    replaced,      \* history: the outstanding code the latest send overwrote
    th,            \* the worker threads: position in the handler and its locals
    started        \* the number of requests the worker threads have taken up

vars == <<otp_storage, now, last, issued, replaced, th, started>>

----------------------------------------------------------------------------
(* Program constants *)

OTP_EXPIRY_MINUTES == 5
OTP_LENGTH == 6

(* Bounds of the model *)

MaxTime == 6        \* the clock stops advancing here
MaxLatency == 1     \* minutes that may pass inside one handler call
MaxDigit == 1       \* the varying digit of a generated code ranges over 0..MaxDigit
NumThreads == 2     \* worker threads that handle requests concurrently
MaxRequests == 2    \* requests the worker threads take up in one behaviour
MaxConcTime == 1    \* the clock of the concurrent specification stops here

----------------------------------------------------------------------------
(* Strings *)

Whitespace == {" "}

LowerChar(c) ==
    CASE c = "A" -> "a"
      [] c = "B" -> "b"
      [] c = "X" -> "x"
      [] OTHER -> c

\* str.lower()
lower(s) == [i \in DOMAIN s |-> LowerChar(s[i])]

RECURSIVE lstrip(_)
lstrip(s) ==
    IF s # <<>> /\ Head(s) \in Whitespace THEN lstrip(Tail(s)) ELSE s

RECURSIVE rstrip(_)
rstrip(s) ==
    IF s # <<>> /\ s[Len(s)] \in Whitespace
    THEN rstrip(SubSeq(s, 1, Len(s) - 1))
    ELSE s

\* str.strip()
strip(s) == rstrip(lstrip(s))

----------------------------------------------------------------------------
(* Inputs *)

EmailStr_any(s) == TRUE

\* pydantic's EmailStr, app.py:45: the request body is validated before the
\* handler is called.  A valid address has no blank, exactly one "@" after a
\* non-empty local part, and a domain of non-empty labels joined by periods,
\* at least two of them.
EmailStr(s) ==
    LET ats == { i \in DOMAIN s : s[i] = "@" }
    IN  /\ Cardinality(ats) = 1
        /\ \A i \in DOMAIN s : s[i] \notin Whitespace
        /\ \A at \in ats :
              /\ at > 1
              /\ at < Len(s)
              /\ \E i \in (at + 1)..Len(s) : s[i] = "."
              /\ s[at + 1] # "." /\ s[Len(s)] # "."
              /\ \A i \in (at + 1)..(Len(s) - 1) : ~(s[i] = "." /\ s[i + 1] = ".")

\* Email addresses a client may submit that pass the validation.
EmailInputs ==
    { <<"a", "@", "x", ".", "y">>, <<"A", "@", "x", ".", "y">>,
      <<"b", "@", "x", ".", "y">> }

\* Email fields a client may submit that fail it: no "@", and no period in
\* the domain.
MalformedEmails ==
    { <<"a", "x", ".", "y">>, <<"a", "@", "x">> }

Emails == { lower(e) : e \in EmailInputs }

Digit(n) ==
    CASE n = 0 -> "0" [] n = 1 -> "1" [] n = 2 -> "2" [] n = 3 -> "3"
      [] n = 4 -> "4" [] n = 5 -> "5" [] n = 6 -> "6" [] n = 7 -> "7"
      [] n = 8 -> "8" [] n = 9 -> "9"

\* generate_otp(): OTP_LENGTH random digits.  The outcomes explored are the
\* codes whose leading digits are 0 and whose last digit is in 0..MaxDigit.
generate_otp ==
    { [i \in 1..OTP_LENGTH |-> IF i = OTP_LENGTH THEN Digit(d) ELSE "0"] :
        d \in 0..MaxDigit }

\* Codes a client may submit: every code that can be generated, bare and
\* surrounded by blanks, and the empty string.
OtpInputs ==
    generate_otp \cup { <<" ">> \o c \o <<" ">> : c \in generate_otp } \cup { <<>> }

----------------------------------------------------------------------------
(* The OTP store *)

Entry(otp, timestamp) == [otp |-> otp, timestamp |-> timestamp]

\* dict without the keys in ks
Without(d, ks) == [k \in DOMAIN d \ ks |-> d[k]]

\* dict with d[k] = v
With(d, k, v) == [j \in DOMAIN d \cup {k} |-> IF j = k THEN v ELSE d[j]]

IsExpired_inclusive(timestamp, current_time) ==
    current_time - timestamp >= OTP_EXPIRY_MINUTES

\* timedelta comparison of app.py:127 and app.py:183
IsExpired(timestamp, current_time) ==
    current_time - timestamp > OTP_EXPIRY_MINUTES

expired_emails_none(storage, current_time) == {}

\* app.py:125-128
expired_emails(storage, current_time) ==
    { email \in DOMAIN storage : IsExpired(storage[email].timestamp, current_time) }

\* clean_expired_otps() run to completion at clock reading current_time
clean_expired_otps(storage, current_time) ==
    Without(storage, expired_emails(storage, current_time))

----------------------------------------------------------------------------
(* Responses *)

\* The detail strings of the HTTP errors of /verify-otp, under the names the
\* error taxonomy gives them.
NotFound == "No OTP found for this email or OTP has expired"
Expired == "OTP has expired. Please request a new one"
Mismatch == "Invalid OTP. Please try again"

\* The detail strings of the RuntimeErrors of send_email_otp.
ConfigurationError == "RESEND_API_KEY must be set in environment variables"
DeliveryFailed == "Failed to send email via Resend"

\* What the mailer collaborator may do on one call.
MailEnvs == { "ok", "no_key", "provider_error" }

\* send_email_otp(email, otp): the exception it raises ("" for none) and
\* whether resend.Emails.send was called.
send_email_otp(env) ==
    IF env = "no_key"
    THEN [raised |-> ConfigurationError, mailed |-> FALSE]
    ELSE IF env = "provider_error"
    THEN [raised |-> DeliveryFailed, mailed |-> TRUE]
    ELSE [raised |-> "", mailed |-> TRUE]

send_failed_ignored(mail) == FALSE

\* app.py:150-153: the try / except around send_email_otp
send_failed(mail) == mail.raised # ""

\* The record of one handled request: its inputs, its HTTP response, the
\* collaborators it called (effects) and what its collaborator did (upstream:
\* the mailer's behaviour for /send-otp, the completion provider's for an
\* /ask that called it).
Call(op, email, otp, question, status, detail, effects, upstream) ==
    [ op |-> op, email |-> email, otp |-> otp, question |-> question,
      status |-> status, detail |-> detail, effects |-> effects,
      upstream |-> upstream ]

\* The step handled no request.
NoCall == Call("none", <<>>, <<>>, <<>>, 0, "", {}, "")

----------------------------------------------------------------------------
(* POST /send-otp, app.py:138-161.  t0 is the clock reading of the sweep,    *)
(* t1 >= t0 the reading of line 156; otp is the code generate_otp() drew     *)
(* and env the behaviour of the mailer.  The result is the store the call    *)
(* leaves and its response.                                                  *)

\* app.py:141
send_otp_email(payload_email) == lower(payload_email)

on_send_failed_stored(swept, email, otp, t1) == With(swept, email, Entry(otp, t1))

\* app.py:152-153: the handler raises before it reaches line 156
on_send_failed(swept, email, otp, t1) == swept

store_otp_keeps_first(swept, email, otp, t1) ==
    IF email \in DOMAIN swept THEN swept ELSE With(swept, email, Entry(otp, t1))

\* app.py:156
store_otp(swept, email, otp, t1) == With(swept, email, Entry(otp, t1))

send_otp(storage, payload_email, t0, t1, otp, env) ==
    LET email == send_otp_email(payload_email)
        swept == clean_expired_otps(storage, t0)
        mail  == send_email_otp(env)
        fx    == IF mail.mailed THEN {"mailer"} ELSE {}
    IN  IF send_failed(mail)
        THEN [ storage |-> on_send_failed(swept, email, otp, t1),
               resp |-> Call("send_otp", payload_email, otp, <<>>,
                             500, mail.raised, fx, env) ]
        ELSE [ storage |-> store_otp(swept, email, otp, t1),
               resp |-> Call("send_otp", payload_email, otp, <<>>,
                             200, "OTP has been sent", fx, env) ]

\* FastAPI's answer to a request body that fails validation.
ValidationError == "value is not a valid email address"

\* A POST /send-otp request as the application handles it, app.py:138-139:
\* the body is parsed into SendOTPRequest, and send_otp is called only when
\* that succeeds; otherwise the answer is 422 and no statement of the handler
\* runs.
post_send_otp(storage, body_email, t0, t1, otp, env) ==
    IF EmailStr(body_email)
    THEN send_otp(storage, body_email, t0, t1, otp, env)
    ELSE [ storage |-> storage,
           resp |-> Call("send_otp", body_email, <<>>, <<>>,
                         422, ValidationError, {}, "") ]

(* POST /verify-otp, app.py:164-203.  t0 is the clock reading of the sweep,  *)
(* t1 >= t0 the reading of the expiry check of line 183.                     *)

verify_otp_email_raw(payload_email) == payload_email

\* app.py:167
verify_otp_email(payload_email) == lower(payload_email)

has_expired_never(timestamp, t1) == FALSE

\* app.py:183
has_expired(timestamp, t1) == IsExpired(timestamp, t1)

on_mismatch_deletes(swept, email) == Without(swept, {email})

\* app.py:191-195: the entry is left in the store
on_mismatch(swept, email) == swept

on_verified_keeps(swept, email) == swept

on_verified_clears(swept, email) == << >>

\* app.py:198
on_verified(swept, email) == Without(swept, {email})

verify_otp(storage, payload_email, payload_otp, t0, t1) ==
    LET email == verify_otp_email(payload_email)
        otp   == strip(payload_otp)
        swept == clean_expired_otps(storage, t0)
        resp(status, detail) ==
            Call("verify_otp", payload_email, payload_otp, <<>>,
                 status, detail, {}, "")
    IN  IF email \notin DOMAIN swept
        THEN [ storage |-> swept, resp |-> resp(400, NotFound) ]
        ELSE IF has_expired(swept[email].timestamp, t1)
        THEN [ storage |-> Without(swept, {email}), resp |-> resp(400, Expired) ]
        ELSE IF swept[email].otp # otp
        THEN [ storage |-> on_mismatch(swept, email), resp |-> resp(400, Mismatch) ]
        ELSE [ storage |-> on_verified(swept, email),
               resp |-> resp(200, "Email verified successfully") ]

----------------------------------------------------------------------------
(* POST /ask, app.py:206-250.  env says whether information.txt exists,     *)
(* whether GROQ_API_KEY is set and what the completion provider does:       *)
(* "ok", "raises", or a completion that is malformed ("no_choices": an      *)
(* empty choice list, "no_content": a first choice whose content is None).  *)

Providers == { "ok", "raises", "no_choices", "no_content" }

AskEnvs == [ profile : BOOLEAN, api_key : BOOLEAN, provider : Providers ]

QuestionInputs == { <<>>, <<" ", " ">>, <<" ", "q", " ">> }

\* Starlette's answer to an exception that escapes the handler.
InternalServerError == "Internal Server Error"

ask_question_raw(payload_question) == payload_question

\* app.py:208
ask_question(payload_question) == strip(payload_question)

ask_storage_cleared(storage, t0) == << >>

\* app.py:206-250: no statement of ask refers to otp_storage
ask_storage(storage, t0) == storage

ask(payload_question, env) ==
    LET question == ask_question(payload_question)
        resp(status, detail, fx, upstream) ==
            Call("ask", <<>>, <<>>, payload_question, status, detail, fx, upstream)
    IN  IF question = <<>>
        THEN resp(400, "Question is required", {}, "")
        ELSE IF ~env.profile
        THEN resp(500, "information.txt not found", {"profile"}, "")
        ELSE IF ~env.api_key
        THEN resp(500, "GROQ_API_KEY is not set", {"profile"}, "")
        ELSE IF env.provider = "raises"
        THEN resp(502, "Groq API error", {"profile", "provider"}, env.provider)
        ELSE IF env.provider \in { "no_choices", "no_content" }
        THEN \* line 249 is outside the try: IndexError / AttributeError escapes
             resp(500, InternalServerError, {"profile", "provider"}, env.provider)
        ELSE resp(200, "", {"profile", "provider"}, env.provider)

----------------------------------------------------------------------------
(* History of issued codes, kept beside the program state.  For each email:  *)
(* the code stored by the latest successful send-otp, the timestamp stored   *)
(* with it, and whether the code has been verified since.  replaced is the   *)
(* outstanding code that the send-otp of this step overwrote, if it          *)
(* overwrote one.                                                            *)

NoCode == <<"-">>

NotIssued == [ code |-> NoCode, at |-> 0, used |-> FALSE ]

Outstanding(h) == h.code # NoCode /\ ~h.used

IssuedBy(h, r, t1) ==
    IF r.op = "send_otp" /\ r.status = 200
    THEN [ h EXCEPT ![lower(r.email)] = [ code |-> r.otp, at |-> t1, used |-> FALSE ] ]
    ELSE IF r.op = "verify_otp" /\ r.status = 200
    THEN [ h EXCEPT ![lower(r.email)] = [ @ EXCEPT !.at = 0, !.used = TRUE ] ]
    ELSE h

ReplacedBy(h, r) ==
    IF /\ r.op = "send_otp" /\ r.status = 200
       /\ lower(r.email) \in DOMAIN h
       /\ Outstanding(h[lower(r.email)])
    THEN h[lower(r.email)].code
    ELSE NoCode

----------------------------------------------------------------------------
(* Worker threads.  FastAPI runs a handler declared with def in a thread    *)
(* pool, so two requests run their handlers concurrently; the interpreter   *)
(* lock makes one dictionary operation atomic and nothing more.  A thread   *)
(* is at one statement of its handler (pc) and holds the handler's locals.  *)
(* Beside the locals, delivered records that send_email_otp returned for    *)
(* the thread's code and email without raising, and alone that no request   *)
(* for the same email was in progress together with the thread's.           *)

Threads == 1..NumThreads

\* A thread that handles no request holds no locals.
Idle == [ pc |-> "idle" ]

\* The locals of a handler that has just been entered.
Entered ==
    [ pc |-> "clean", op |-> "", email |-> <<>>, otp |-> <<>>,
      current_time |-> 0, size |-> 0, seen |-> {}, expired_emails |-> <<>>,
      delivered |-> FALSE, status |-> 0, detail |-> "", alone |-> TRUE ]

\* The statement after clean_expired_otps() in each handler.
AfterClean(op) == IF op = "send_otp" THEN "send_email" ELSE "lookup"

\* The handler of thread t ends with this response.
Respond(t, status, detail) ==
    [ th EXCEPT ![t] = [ Entered EXCEPT !.pc = "done", !.op = th[t].op,
                                     !.email = th[t].email, !.alone = th[t].alone,
                                     !.status = status, !.detail = detail ] ]

\* An exception no handler catches: the server answers 500.
Escapes(t, exception) == Respond(t, 500, exception)

----------------------------------------------------------------------------
(* The sequential specifications: each request is handled to completion      *)
(* before the next one starts; the clock may advance between and inside      *)
(* requests.  last describes the request the step handled: a step of the     *)
(* clock alone handles none.  Spec is the OTP manager (send-otp and          *)
(* verify-otp requests whose bodies are valid); AppSpec is the whole         *)
(* application, with /ask and with the requests that fail validation.        *)

Init ==
    /\ otp_storage = << >>
    /\ now = 0
    /\ last = NoCall
    /\ issued = [ e \in Emails |-> NotIssued ]
    /\ replaced = NoCode
    /\ th = [ t \in Threads |-> Idle ]
    /\ started = 0

Handled(res, t1) ==
    /\ otp_storage' = res.storage
    /\ last' = res.resp
    /\ now' = t1
    /\ issued' = IssuedBy(issued, res.resp, t1)
    /\ replaced' = ReplacedBy(issued, res.resp)
    /\ UNCHANGED <<th, started>>

SendOtp ==
    \E payload_email \in EmailInputs, otp \in generate_otp, env \in MailEnvs,
       t1 \in now..(now + MaxLatency) :
        /\ t1 <= MaxTime
        /\ \E res \in { send_otp(otp_storage, payload_email, now, t1, otp, env) } :
             Handled(res, t1)

VerifyOtp ==
    \E payload_email \in EmailInputs, payload_otp \in OtpInputs,
       t1 \in now..(now + MaxLatency) :
        /\ t1 <= MaxTime
        /\ \E res \in { verify_otp(otp_storage, payload_email, payload_otp, now, t1) } :
             Handled(res, t1)

Ask ==
    \E payload_question \in QuestionInputs, env \in AskEnvs :
        Handled([ storage |-> ask_storage(otp_storage, now),
                  resp |-> ask(payload_question, env) ], now)

\* A /send-otp request whose email field is malformed.  A request that is
\* rejected draws no code and meets no mailer.
SendOtpMalformed ==
    \E body_email \in MalformedEmails :
        IF EmailStr(body_email)
        THEN \E otp \in generate_otp, env \in MailEnvs, t1 \in now..(now + MaxLatency) :
                /\ t1 <= MaxTime
                /\ \E res \in { post_send_otp(otp_storage, body_email, now, t1, otp, env) } :
                     Handled(res, t1)
        ELSE \E res \in { post_send_otp(otp_storage, body_email, now, now, <<>>, "ok") } :
                Handled(res, now)

Tick ==
    /\ now < MaxTime
    /\ now' = now + 1
    /\ last' = NoCall
    /\ replaced' = NoCode
    /\ UNCHANGED <<otp_storage, issued, th, started>>

Next == SendOtp \/ VerifyOtp \/ Tick

Spec == Init /\ [][Next]_vars

AppNext == SendOtp \/ VerifyOtp \/ SendOtpMalformed \/ Ask \/ Tick

AppSpec == Init /\ [][AppNext]_vars

----------------------------------------------------------------------------
(* The concurrent specification: NumThreads worker threads each take up a    *)
(* request and run its handler one statement at a time, interleaved with     *)
(* each other and with the clock.                                            *)

ConcUnchanged == UNCHANGED <<last, issued, replaced>>

\* The history after thread t has stored its code, and after it has verified
\* the code of its email.
Stored(t) ==
    IssuedBy(issued, Call("send_otp", th[t].email, th[t].otp, <<>>, 200, "", {}, ""), now)

Verified(t) ==
    IssuedBy(issued, Call("verify_otp", th[t].email, th[t].otp, <<>>, 200, "", {}, ""), now)

\* The ages of the entries the store holds when the threads start: just
\* stored, at the end of its validity, and expired but not yet swept.
InitAges == { 0, OTP_EXPIRY_MINUTES, OTP_EXPIRY_MINUTES + 1 }

\* The threads start from a store that earlier requests have filled, each
\* entry with a code that was issued and has not been verified.
ConcInit ==
    /\ now = 0
    /\ \E present \in SUBSET Emails :
         otp_storage \in [ present -> { Entry(otp, 0 - age) :
                                          otp \in generate_otp, age \in InitAges } ]
    /\ last = NoCall
    /\ issued = [ e \in Emails |->
                    IF e \in DOMAIN otp_storage
                    THEN [ code |-> otp_storage[e].otp,
                           at |-> otp_storage[e].timestamp, used |-> FALSE ]
                    ELSE NotIssued ]
    /\ replaced = NoCode
    /\ th = [ t \in Threads |-> Idle ]
    /\ started = 0

\* A request arrives at an idle thread: app.py:141 and app.py:167-168.
\* alone records that no request for the same email is in progress together
\* with this one.
Start(t) ==
    /\ th[t].pc = "idle"
    /\ started < MaxRequests
    /\ \E op \in { "send_otp", "verify_otp" }, payload_email \in EmailInputs,
          payload_otp \in OtpInputs :
        LET email == lower(payload_email)
            same  == { u \in Threads \ {t} : th[u].pc # "idle" /\ th[u].email = email }
        IN  th' = [ u \in Threads |->
                      IF u = t
                      THEN [ Entered EXCEPT !.op = op, !.email = email,
                                            !.otp = IF op = "verify_otp"
                                                    THEN strip(payload_otp) ELSE <<>>,
                                            !.alone = (same = {}) ]
                      ELSE IF u \in same THEN [ th[u] EXCEPT !.alone = FALSE ]
                      ELSE th[u] ]
    /\ started' = started + 1
    /\ UNCHANGED <<otp_storage, now>>
    /\ ConcUnchanged

\* app.py:124-125: the clock is read and the iteration over the store begins.
ScanBegin(t) ==
    /\ th[t].pc = "clean"
    /\ th' = [ th EXCEPT ![t].pc = "scan", ![t].current_time = now,
                         ![t].size = Cardinality(DOMAIN otp_storage),
                         ![t].seen = {}, ![t].expired_emails = <<>> ]
    /\ UNCHANGED <<otp_storage, now, started>>
    /\ ConcUnchanged

\* app.py:125-128: one step of the iteration.  The iterator raises
\* RuntimeError when the store has changed size since the iteration began;
\* otherwise it yields an entry not yet visited, or ends.
ScanNext(t) ==
    /\ th[t].pc = "scan"
    /\ IF Cardinality(DOMAIN otp_storage) # th[t].size
       THEN th' = Escapes(t, "RuntimeError")
       ELSE IF DOMAIN otp_storage \subseteq th[t].seen
       THEN th' = [ th EXCEPT ![t].pc = IF th[t].expired_emails = <<>>
                                        THEN AfterClean(th[t].op) ELSE "delete",
                              ![t].current_time = 0, ![t].size = 0, ![t].seen = {} ]
       ELSE \E email \in DOMAIN otp_storage \ th[t].seen :
              th' = [ th EXCEPT
                        ![t].seen = @ \cup {email},
                        ![t].expired_emails =
                            IF IsExpired(otp_storage[email].timestamp, th[t].current_time)
                            THEN Append(@, email) ELSE @ ]
    /\ UNCHANGED <<otp_storage, now, started>>
    /\ ConcUnchanged

\* app.py:129-130: del otp_storage[email] for the next expired email; del
\* raises KeyError when the key is gone.
Delete(t) ==
    /\ th[t].pc = "delete"
    /\ LET email == Head(th[t].expired_emails)
           rest  == Tail(th[t].expired_emails)
       IN  IF email \in DOMAIN otp_storage
           THEN /\ otp_storage' = Without(otp_storage, {email})
                /\ th' = [ th EXCEPT ![t].expired_emails = rest,
                                     ![t].pc = IF rest = <<>>
                                               THEN AfterClean(th[t].op) ELSE "delete" ]
           ELSE /\ th' = Escapes(t, "KeyError")
                /\ UNCHANGED otp_storage
    /\ UNCHANGED <<now, started>>
    /\ ConcUnchanged

\* app.py:147-153: a code is generated and mailed.
SendEmail(t) ==
    /\ th[t].pc = "send_email"
    /\ \E otp \in generate_otp, env \in MailEnvs :
         LET mail == send_email_otp(env)
         IN  th' = IF send_failed(mail)
                   THEN Respond(t, 500, mail.raised)
                   ELSE [ th EXCEPT ![t].pc = "store", ![t].otp = otp,
                                    ![t].delivered = mail.mailed /\ mail.raised = "" ]
    /\ UNCHANGED <<otp_storage, now, started>>
    /\ ConcUnchanged

\* app.py:156-161
Store(t) ==
    /\ th[t].pc = "store"
    /\ otp_storage' = store_otp(otp_storage, th[t].email, th[t].otp, now)
    /\ th' = Respond(t, 200, "OTP has been sent")
    /\ issued' = Stored(t)
    /\ UNCHANGED <<now, started, last, replaced>>

\* app.py:174-178
Lookup(t) ==
    /\ th[t].pc = "lookup"
    /\ th' = IF th[t].email \notin DOMAIN otp_storage
             THEN Respond(t, 400, NotFound)
             ELSE [ th EXCEPT ![t].pc = "read" ]
    /\ UNCHANGED <<otp_storage, now, started>>
    /\ ConcUnchanged

\* app.py:180-195: the entry is read (KeyError when it is gone), its age is
\* checked against the clock and its code compared with the submitted one.
Read(t) ==
    /\ th[t].pc = "read"
    /\ th' = IF th[t].email \notin DOMAIN otp_storage
             THEN Escapes(t, "KeyError")
             ELSE LET entry == otp_storage[th[t].email]
                  IN  IF has_expired(entry.timestamp, now)
                      THEN [ th EXCEPT ![t].pc = "delete_expired" ]
                      ELSE IF entry.otp # th[t].otp
                      THEN Respond(t, 400, Mismatch)
                      ELSE [ th EXCEPT ![t].pc = "delete_verified" ]
    /\ UNCHANGED <<otp_storage, now, started>>
    /\ ConcUnchanged

\* app.py:184-188
DeleteExpired(t) ==
    /\ th[t].pc = "delete_expired"
    /\ IF th[t].email \in DOMAIN otp_storage
       THEN /\ otp_storage' = Without(otp_storage, {th[t].email})
            /\ th' = Respond(t, 400, Expired)
       ELSE /\ th' = Escapes(t, "KeyError")
            /\ UNCHANGED otp_storage
    /\ UNCHANGED <<now, started>>
    /\ ConcUnchanged

\* app.py:198-203
DeleteVerified(t) ==
    /\ th[t].pc = "delete_verified"
    /\ IF th[t].email \in DOMAIN otp_storage
       THEN /\ otp_storage' = on_verified(otp_storage, th[t].email)
            /\ th' = Respond(t, 200, "Email verified successfully")
            /\ issued' = Verified(t)
       ELSE /\ th' = Escapes(t, "KeyError")
            /\ UNCHANGED <<otp_storage, issued>>
    /\ UNCHANGED <<now, started, last, replaced>>

\* The response has been sent; the thread is free for the next request.
Return(t) ==
    /\ th[t].pc = "done"
    /\ th' = [ th EXCEPT ![t] = Idle ]
    /\ UNCHANGED <<otp_storage, now, started>>
    /\ ConcUnchanged

ConcTick ==
    /\ now < MaxConcTime
    /\ now' = now + 1
    /\ UNCHANGED <<otp_storage, th, started>>
    /\ ConcUnchanged

ConcNext ==
    \/ \E t \in Threads :
         \/ Start(t) \/ ScanBegin(t) \/ ScanNext(t) \/ Delete(t)
         \/ SendEmail(t) \/ Store(t)
         \/ Lookup(t) \/ Read(t) \/ DeleteExpired(t) \/ DeleteVerified(t)
         \/ Return(t)
    \/ ConcTick

ConcSpec == ConcInit /\ [][ConcNext]_vars

----------------------------------------------------------------------------
(* Vocabulary of the properties *)

SendStep == last'.op = "send_otp"
VerifyStep == last'.op = "verify_otp"

\* The email the latest request was about, as the handlers key it.
LastEmail == lower(last.email)

\* Clock readings (sweep, expiry check) of a verify-otp call made from the
\* state whose clock reads t, now or after any wait.
LaterCalls(t) ==
    { tt \in (t..MaxTime) \X (t..(MaxTime + MaxLatency)) :
        tt[1] <= tt[2] /\ tt[2] <= tt[1] + MaxLatency }

\* The calls of LaterCalls(t) made while a code stored at time at is unexpired.
CallsBeforeExpiry(t, at) ==
    { tt \in LaterCalls(t) : tt[2] - at <= OTP_EXPIRY_MINUTES }

----------------------------------------------------------------------------
(* C1: after a successful send-otp for E and before the code expires, with  *)
(* no other send-otp for E in between, verify-otp with the issued code      *)
(* succeeds and deletes the entry; a verify-otp with the same code after    *)
(* that success fails with NotFound.                                        *)

C1_VerifiesExactlyOnce ==
    [][ VerifyStep =>
          LET E == lower(last'.email)
              h == issued[E]
          IN  strip(last'.otp) = h.code =>
                /\ (Outstanding(h) /\ now' - h.at <= OTP_EXPIRY_MINUTES) =>
                      (last'.status = 200 /\ E \notin DOMAIN otp_storage')
                /\ h.used =>
                      (last'.status = 400 /\ last'.detail = NotFound) ]_vars

\* A second verify-otp with the code that already verified has been refused.
C1_Witness ==
    /\ last.op = "verify_otp"
    /\ last.detail = NotFound
    /\ issued[LastEmail].used
    /\ strip(last.otp) = issued[LastEmail].code

(* C2 as stated: a verify-otp attempted more than OTP_EXPIRY_MINUTES after  *)
(* the last successful send-otp for E fails with Expired.                   *)

C2_Original ==
    [][ VerifyStep =>
          LET h == issued[lower(last'.email)]
          IN  (Outstanding(h) /\ now - h.at > OTP_EXPIRY_MINUTES) =>
                last'.detail = Expired ]_vars

(* C2 amended: such a verify-otp fails whatever code is submitted and       *)
(* leaves no entry for E; the failure is NotFound when the window had       *)
(* elapsed when the call swept the store, and Expired only when the window  *)
(* elapses between the call's sweep and its expiry check.                   *)

C2_ExpiredOrNotFound ==
    [][ VerifyStep =>
          LET E == lower(last'.email)
              h == issued[E]
          IN  (Outstanding(h) /\ now' - h.at > OTP_EXPIRY_MINUTES) =>
                /\ last'.status = 400
                /\ E \notin DOMAIN otp_storage'
                /\ last'.detail =
                     IF now - h.at > OTP_EXPIRY_MINUTES THEN NotFound ELSE Expired ]_vars

\* The correct code was submitted after the window and refused.
C2_Witness ==
    /\ last.op = "verify_otp"
    /\ last.status = 400
    /\ Outstanding(issued[LastEmail])
    /\ strip(last.otp) = issued[LastEmail].code
    /\ now - issued[LastEmail].at > OTP_EXPIRY_MINUTES

(* C3: while E's entry is unexpired, a verify-otp with a wrong code fails   *)
(* with Mismatch and leaves the entry (code and timestamp) as it was, so    *)
(* that a verify-otp with the correct code made afterwards, before expiry,  *)
(* still succeeds: no count of failed attempts is kept.                     *)

C3_MismatchKeepsEntry ==
    [][ VerifyStep =>
          LET E == lower(last'.email)
              h == issued[E]
          IN  ( /\ Outstanding(h)
                /\ now' - h.at <= OTP_EXPIRY_MINUTES
                /\ strip(last'.otp) # h.code ) =>
                /\ last'.status = 400
                /\ last'.detail = Mismatch
                /\ E \in DOMAIN otp_storage'
                /\ otp_storage'[E] = Entry(h.code, h.at)
                /\ \A tt \in CallsBeforeExpiry(now', h.at) :
                     verify_otp(otp_storage', last'.email, h.code, tt[1], tt[2])
                        .resp.status = 200 ]_vars

\* A wrong code has just been refused and the entry is still there.
C3_Witness ==
    /\ last.op = "verify_otp"
    /\ last.detail = Mismatch
    /\ Outstanding(issued[LastEmail])
    /\ LastEmail \in DOMAIN otp_storage
    /\ strip(last.otp) # otp_storage[LastEmail].otp

(* C4 as stated: after two consecutive successful send-otp for E the store  *)
(* holds the second entry alone and a verify-otp with the first code,       *)
(* whenever it is made, fails.                                              *)

SecondSend == last.op = "send_otp" /\ last.status = 200 /\ replaced # NoCode

FirstCodeRefused ==
    \A tt \in LaterCalls(now) :
        verify_otp(otp_storage, last.email, replaced, tt[1], tt[2]).resp.status = 400

C4_Original ==
    SecondSend =>
        /\ LastEmail \in DOMAIN otp_storage
        /\ otp_storage[LastEmail] = Entry(last.otp, now)
        /\ FirstCodeRefused

(* C4 amended: the store holds the second entry alone, and a verify-otp     *)
(* with the first code fails whenever the second code differs from the      *)
(* first (generate_otp draws the two codes independently).                  *)

C4_SecondSendOverwrites ==
    SecondSend =>
        /\ LastEmail \in DOMAIN otp_storage
        /\ otp_storage[LastEmail] = Entry(last.otp, now)
        /\ replaced # last.otp => FirstCodeRefused

\* A second send-otp has replaced an outstanding code by a different one.
C4_Witness == SecondSend /\ replaced # last.otp

(* C5 as stated: after a send-otp whose mailer failed, the store has no     *)
(* entry for E that carries the newly generated code, and a verify-otp      *)
(* with that code does not succeed.                                         *)

FailedSend == last.op = "send_otp" /\ last.upstream # "ok"

C5_Original ==
    FailedSend =>
        /\ last.status = 500
        /\ LastEmail \in DOMAIN otp_storage => otp_storage[LastEmail].otp # last.otp
        /\ \A tt \in LaterCalls(now) :
             verify_otp(otp_storage, last.email, last.otp, tt[1], tt[2])
                .resp.status # 200

(* C5 amended: a send-otp whose mailer fails (no credential, or a provider  *)
(* error) answers 500 and stores nothing: it leaves the store as its sweep  *)
(* left it, so E keeps the entry it had, and a verify-otp with the new code *)
(* succeeds only if that earlier entry happens to carry the same code.      *)

C5_FailedSendStoresNothing ==
    [][ (SendStep /\ last'.upstream # "ok") =>
          LET E == lower(last'.email)
          IN  /\ last'.status = 500
              /\ last'.detail \in { ConfigurationError, DeliveryFailed }
              /\ DOMAIN otp_storage' \subseteq DOMAIN otp_storage
              /\ \A k \in DOMAIN otp_storage' : otp_storage'[k] = otp_storage[k]
              /\ (E \notin DOMAIN otp_storage \/ otp_storage[E].otp # last'.otp) =>
                   \A tt \in LaterCalls(now') :
                       verify_otp(otp_storage', last'.email, last'.otp, tt[1], tt[2])
                          .resp.status # 200 ]_vars

\* The mailer has failed on a send-otp for an email that has an entry.
C5_Witness ==
    /\ FailedSend
    /\ last.detail = DeliveryFailed
    /\ LastEmail \in DOMAIN otp_storage
    /\ otp_storage[LastEmail].otp # last.otp

(* C6 as stated: in every reachable state no entry of the store is older    *)
(* than OTP_EXPIRY_MINUTES.                                                 *)

C6_Original ==
    \A e \in DOMAIN otp_storage :
        now - otp_storage[e].timestamp <= OTP_EXPIRY_MINUTES

(* C6 amended: every send-otp and verify-otp leaves no entry that was older *)
(* than OTP_EXPIRY_MINUTES when the call swept the store; between calls an  *)
(* entry stays in the store past its expiry.                                *)

C6_NoExpiredEntryAfterSweep ==
    [][ (SendStep \/ VerifyStep) =>
          \A e \in DOMAIN otp_storage' :
              now - otp_storage'[e].timestamp <= OTP_EXPIRY_MINUTES ]_vars

\* A call about one email has swept the expired entry of another.
C6_Witness ==
    /\ last.op \in { "send_otp", "verify_otp" }
    /\ \E e \in Emails \ {LastEmail} :
         /\ Outstanding(issued[e])
         /\ now - issued[e].at > OTP_EXPIRY_MINUTES
         /\ e \notin DOMAIN otp_storage

(* C7: concurrent send-otp / verify-otp requests for different emails need *)
(* no lock: whatever the interleaving of their statements, the sweep of the *)
(* whole store included, each request ends with one of its documented       *)
(* outcomes.                                                                *)

Documented(r) ==
    IF r.op = "send_otp"
    THEN \/ r.status = 200
         \/ r.status = 500 /\ r.detail \in { ConfigurationError, DeliveryFailed }
    ELSE \/ r.status = 200
         \/ r.status = 400 /\ r.detail \in { NotFound, Expired, Mismatch }

C7_DisjointRequestsSafe ==
    \A t \in Threads :
        (th[t].pc = "done" /\ th[t].alone) => Documented(th[t])

(* C8: an /ask with a non-blank question, the profile present and the       *)
(* provider configured ends with 502 whenever the completion provider       *)
(* fails, by raising or by returning a malformed completion.                *)

C8_ProviderFailureIs502 ==
    (last.op = "ask" /\ last.upstream \in { "raises", "no_choices", "no_content" }) =>
        last.status = 502

(* C9: an /ask whose question is empty or blank ends with 400 before the    *)
(* profile is loaded and before the provider is called, whatever the state  *)
(* of the profile and the provider.                                         *)

C9_BlankQuestionRejectedFirst ==
    (last.op = "ask" /\ strip(last.question) = <<>>) =>
        /\ last.status = 400
        /\ last.detail = "Question is required"
        /\ last.effects = {}

\* A question of blanks only has been rejected.
C9_Witness ==
    /\ last.op = "ask"
    /\ last.question # <<>>
    /\ strip(last.question) = <<>>
    /\ last.status = 400

(* C10: the store holds at most one entry per email, emails compared after  *)
(* lower(): every key is lower case, and a code issued for one spelling of  *)
(* an email verifies, before it expires, under every spelling of it.        *)

C10_OneEntryPerEmail ==
    /\ \A k \in DOMAIN otp_storage : lower(k) = k
    /\ \A k1, k2 \in DOMAIN otp_storage : lower(k1) = lower(k2) => k1 = k2
    /\ \A e2 \in EmailInputs :
         LET h == issued[lower(e2)]
         IN  Outstanding(h) =>
               \A tt \in CallsBeforeExpiry(now, h.at) :
                   LET r == verify_otp(otp_storage, e2, h.code, tt[1], tt[2])
                   IN  /\ r.resp.status = 200
                       /\ lower(e2) \notin DOMAIN r.storage

\* A code has been issued for one spelling and verifies under another.
C10_Witness ==
    /\ last.op = "send_otp"
    /\ last.status = 200
    /\ \E e2 \in EmailInputs \ {last.email} :
         /\ lower(e2) = LastEmail
         /\ verify_otp(otp_storage, e2, last.otp, now, now).resp.status = 200

(* C11: a send-otp request whose email field is malformed is answered 422   *)
(* without any call of the mailer, and leaves the store exactly as it was:  *)
(* nothing is swept, and no code is generated or stored.                    *)

C11_MalformedEmailRejected ==
    [][ (SendStep /\ last'.email \in MalformedEmails) =>
          /\ last'.status = 422
          /\ last'.effects = {}
          /\ last'.otp = <<>>
          /\ otp_storage' = otp_storage ]_vars

\* A malformed request has been rejected while the store held an entry that
\* a sweep would have removed.
C11_Witness ==
    /\ last.op = "send_otp"
    /\ last.email \in MalformedEmails
    /\ last.status = 422
    /\ \E e \in DOMAIN otp_storage :
         now - otp_storage[e].timestamp > OTP_EXPIRY_MINUTES

(* C12: a verify-otp never succeeds on an entry that is older than          *)
(* OTP_EXPIRY_MINUTES when the call checks it: whatever the requests and    *)
(* clock advances before, a successful verify-otp found an entry for the    *)
(* email whose age at the call's expiry check was within the window.        *)

C12_ExpiredNeverVerifies ==
    [][ (VerifyStep /\ last'.status = 200) =>
          LET E == lower(last'.email)
          IN  /\ E \in DOMAIN otp_storage
              /\ otp_storage[E].otp = strip(last'.otp)
              /\ now' - otp_storage[E].timestamp <= OTP_EXPIRY_MINUTES ]_vars

\* The code of an entry that the sweep had left in the store was submitted
\* and refused as expired.
C12_Witness ==
    /\ last.op = "verify_otp"
    /\ last.detail = Expired
    /\ strip(last.otp) = issued[LastEmail].code
    /\ Outstanding(issued[LastEmail])
    /\ LastEmail \notin DOMAIN otp_storage

(* Vocabulary of the concurrent properties *)

\* Thread t has answered a request op with status 200.
Succeeded(t, op) == th[t].pc = "done" /\ th[t].op = op /\ th[t].status = 200

\* Threads t and u have handled two requests op for one email, in progress
\* together.
Together(t, u, op) ==
    /\ t # u
    /\ th[t].pc = "done" /\ th[u].pc = "done"
    /\ th[t].op = op /\ th[u].op = op
    /\ th[t].email = th[u].email
    /\ ~th[t].alone /\ ~th[u].alone

(* C13: a code is single-use under concurrency: whatever the interleaving   *)
(* of the verify-otp calls for an email, a verify-otp succeeds only when no *)
(* verify-otp has succeeded for that email since its code was stored, so    *)
(* of the calls that submit the code of one send-otp at most one succeeds:  *)
(* of two verify-otp calls that are the only requests so far, not both.     *)

C13_SingleUse ==
    [][ \A t \in Threads :
          (th[t].pc = "delete_verified" /\ th'[t].status = 200) =>
              /\ ~issued[th[t].email].used
              /\ issued'[th[t].email].used
              /\ started = 2 =>
                    \A u \in Threads \ {t} :
                        ~(Succeeded(u, "verify_otp") /\ th[u].email = th[t].email) ]_vars

\* Two verify-otp calls in progress together both matched the stored code;
\* one has succeeded and the other has not.
C13_Witness ==
    \E t, u \in Threads :
        /\ Together(t, u, "verify_otp")
        /\ th[t].status = 200
        /\ th[u].status = 500 /\ th[u].detail = "KeyError"

(* C14: a verify-otp call that runs together with other send-otp or         *)
(* verify-otp calls for the same email ends, whatever the interleaving,     *)
(* with success or with 400 and NotFound, Expired or Mismatch.              *)

C14_VerifyOutcomeDocumented ==
    \A t \in Threads :
        (th[t].pc = "done" /\ th[t].op = "verify_otp" /\ ~th[t].alone) =>
            Documented(th[t])

(* C15: concurrent send-otp calls for one email are last-write-wins: when   *)
(* two of them, the only requests so far, have both answered 200, the store *)
(* holds one entry for the email, with the code and the timestamp of the    *)
(* store step (app.py:156) that was performed last.                         *)

C15_LastWriteWins ==
    \A t, u \in Threads :
        ( /\ Together(t, u, "send_otp")
          /\ th[t].status = 200 /\ th[u].status = 200
          /\ started = 2 ) =>
            LET E == th[t].email
            IN  /\ E \in DOMAIN otp_storage
                /\ otp_storage[E] = Entry(issued[E].code, issued[E].at)
                /\ \A k \in DOMAIN otp_storage : lower(k) = E => k = E

\* Two send-otp calls for one email, in progress together, have both
\* succeeded.
C15_Witness ==
    \E t, u \in Threads :
        /\ Together(t, u, "send_otp")
        /\ th[t].status = 200 /\ th[u].status = 200
        /\ started = 2

(* C16: the sweep at the start of every send-otp and verify-otp call, made  *)
(* with the clock reading at the start of the call, removes exactly the     *)
(* entries whose age is strictly greater than OTP_EXPIRY_MINUTES: an entry  *)
(* whose age equals the window stays as it was.  The sweep comes before any *)
(* other effect and whatever the outcome of the call: the entries of the    *)
(* other emails after the call are those the sweep kept, and the call finds *)
(* no entry for its own email when the sweep removed it.                    *)

C16_SweepRemovesExactlyExpired ==
    [][ (SendStep \/ VerifyStep) =>
          LET E == lower(last'.email)
              kept == { e \in DOMAIN otp_storage :
                          now - otp_storage[e].timestamp <= OTP_EXPIRY_MINUTES }
          IN  /\ DOMAIN clean_expired_otps(otp_storage, now) = kept
              /\ DOMAIN otp_storage' \ {E} = kept \ {E}
              /\ \A e \in kept \ {E} : otp_storage'[e] = otp_storage[e]
              /\ (E \in kept /\ E \in DOMAIN otp_storage' /\ last'.status # 200) =>
                    otp_storage'[E] = otp_storage[E]
              /\ (E \notin kept /\ VerifyStep) =>
                    (last'.detail = NotFound /\ E \notin DOMAIN otp_storage')
              /\ (E \notin kept /\ SendStep /\ last'.status # 200) =>
                    E \notin DOMAIN otp_storage' ]_vars

\* A call has left in the store an entry of another email whose age was
\* OTP_EXPIRY_MINUTES exactly when the call swept the store.
C16_Witness ==
    /\ last.op \in { "send_otp", "verify_otp" }
    /\ \E e \in DOMAIN otp_storage \ {LastEmail} :
         now - otp_storage[e].timestamp > OTP_EXPIRY_MINUTES

(* C17: /ask is independent of the OTP store: an /ask call leaves the store *)
(* as it was, its response is determined by the question and by the         *)
(* profile and the provider alone, and in every state, whatever the store   *)
(* holds and whether or not an email has been verified, an /ask can         *)
(* succeed.                                                                 *)

C17_AskIndependentOfStore ==
    /\ [](ENABLED (Ask /\ last'.status = 200))
    /\ [][ last'.op = "ask" =>
              /\ otp_storage' = otp_storage
              /\ issued' = issued
              /\ \E env \in AskEnvs : last' = ask(last'.question, env) ]_vars

\* An /ask has succeeded while no email has been verified and the store
\* holds an expired entry.
C17_Witness ==
    /\ last.op = "ask"
    /\ last.status = 200
    /\ \A e \in Emails : ~issued[e].used
    /\ \E e \in DOMAIN otp_storage :
         now - otp_storage[e].timestamp > OTP_EXPIRY_MINUTES

(* C18: the store never holds a code that was generated but not delivered:  *)
(* whatever the interleaving of the requests, every entry that a step       *)
(* writes is written by a send-otp call at its store step (app.py:156), for *)
(* its own email, with the code that send_email_otp had accepted for that   *)
(* email and call without raising; and every entry in the store is the one  *)
(* that the latest such step wrote for its email (the entries the store     *)
(* starts with being those of earlier calls).                               *)

C18_StoredCodesWereDelivered ==
    /\ [](\A e \in DOMAIN otp_storage :
              otp_storage[e] = Entry(issued[e].code, issued[e].at))
    /\ [][ \A e \in DOMAIN otp_storage' :
              (e \notin DOMAIN otp_storage \/ otp_storage'[e] # otp_storage[e]) =>
                  \E t \in Threads :
                      /\ th[t].pc = "store" /\ th'[t].pc = "done"
                      /\ th[t].op = "send_otp"
                      /\ th[t].email = e
                      /\ th[t].delivered
                      /\ otp_storage'[e].otp = th[t].otp ]_vars

\* Of two send-otp calls for one email in progress together, the mailer
\* failed for one and the other has stored its code.
C18_Witness ==
    \E t, u \in Threads :
        /\ Together(t, u, "send_otp")
        /\ th[t].status = 500 /\ th[t].detail = DeliveryFailed
        /\ th[u].status = 200
        /\ th[t].email \in DOMAIN otp_storage

(* C19: a send-otp or verify-otp call for email E, whatever its outcome,    *)
(* creates no entry for another email, and leaves every entry of another    *)
(* email that is unexpired when the call starts as it was, code and         *)
(* timestamp: an entry of another email that the call removes is older than *)
(* OTP_EXPIRY_MINUTES.                                                      *)

C19_OtherEmailsUntouched ==
    [][ (SendStep \/ VerifyStep) =>
          LET E == lower(last'.email)
          IN  /\ \A e \in DOMAIN otp_storage' \ {E} :
                    e \in DOMAIN otp_storage /\ otp_storage'[e] = otp_storage[e]
              /\ \A e \in DOMAIN otp_storage \ (DOMAIN otp_storage' \cup {E}) :
                    now - otp_storage[e].timestamp > OTP_EXPIRY_MINUTES ]_vars

\* A verify-otp has removed the entry of its email and left the unexpired
\* entry of another email in the store.
C19_Witness ==
    /\ last.op = "verify_otp"
    /\ last.status = 200
    /\ \E e \in DOMAIN otp_storage \ {LastEmail} :
         /\ now - otp_storage[e].timestamp <= OTP_EXPIRY_MINUTES
         /\ otp_storage[e] = Entry(issued[e].code, issued[e].at)

====
